---- MODULE Spec2Model ----
(***************************************************************************)
(* Residential battery control on EPEX day-ahead prices: the general       *)
(* tariff model (class EpexOptimizer) and the net-metering model (class    *)
(* EpexOptimizerNM), with the Battery they share.                          *)
(*                                                                         *)
(* Numbers.  The program computes with floats; the model computes with     *)
(* exact fixed-point integers:                                             *)
(*   - an energy (kWh), a power (kW), a state of charge and a flag value   *)
(*     r are held as the integer r * Scale;                                *)
(*   - battery_size is held in whole kWh;                                  *)
(*   - efficiency is held as a pair <<num, den>>;                          *)
(*   - a price (euro/kWh) is held in cents, tax_rate in percent, so that   *)
(*     prices_tax is held in 1/10000 euro;                                 *)
(*   - interval_fraction is held in quarters (1 -> 4, 0.25 -> 1).          *)
(* Python lists are functions on 0..n-1, Python objects are records whose  *)
(* DOMAIN is the set of attributes that have been assigned.                *)
(***************************************************************************)
EXTENDS Integers, Sequences, FiniteSets, TLC

VARIABLES self, solver, last

vars == <<self, solver, last>>

\* Largest horizon (number of periods of the input series) explored.
MaxT == 2

Scale == 3 * 4
Unit == Scale \div 3
NaN == 0 - 1000000

-----------------------------------------------------------------------------
(* Python helpers *)

len(l) == Cardinality(DOMAIN l)

range(n) == 0 .. (n - 1)

Zeros(n) == [i \in range(n) |-> 0]

\* l[a:b] for 0 <= a <= b <= len(l)
Slice(l, a, b) == [i \in range(b - a) |-> l[a + i]]

SetAttr(obj, name, value) == (name :> value) @@ obj

HasAttr(obj, name) == name \in DOMAIN obj

None == [none |-> TRUE]

isnan(x) == x = NaN

\* round(num / den, ndigits) for den > 0, as the integer number of
\* 10^-ndigits units: round half to even on the exact quotient.
RoundHalfEven(num, den) ==
    LET q == num \div den
        r == num % den
    IN  IF 2 * r < den THEN q
        ELSE IF 2 * r > den THEN q + 1
        ELSE IF q % 2 = 0 THEN q ELSE q + 1

RECURSIVE GCD(_, _)
GCD(a, b) == IF b = 0 THEN a ELSE GCD(b, a % b)

round(num, den, ndigits) ==
    LET g == GCD(10 ^ ndigits, den)
    IN  RoundHalfEven(num * ((10 ^ ndigits) \div g), den \div g)

RECURSIVE Sum(_, _)
Sum(f, S) == IF S = {} THEN 0
             ELSE LET j == CHOOSE k \in S : TRUE
                  IN  f[j] + Sum(f, S \ {j})

-----------------------------------------------------------------------------
(* battery.py *)

Battery(battery_size, min_soc, max_soc, max_discharge_power, max_charge_power, efficiency) ==
    [ min_soc             |-> IF 0 <= min_soc /\ min_soc < Scale THEN min_soc ELSE 0,
      max_soc             |-> IF 0 < max_soc /\ max_soc <= Scale THEN max_soc ELSE Scale,
      battery_size        |-> battery_size,
      max_discharge_power |-> max_discharge_power,
      max_charge_power    |-> max_charge_power,
      discharge_ratio     |-> round(max_discharge_power, Scale * battery_size, 3),
      charge_ratio        |-> round(max_charge_power, Scale * battery_size, 3),
      efficiency          |-> efficiency ]

-----------------------------------------------------------------------------
(* epex_optimizer.py: construction *)

M_general == 1000

_set_period(obj) ==
    LET el_use    == obj.df.electricity_usage
        el_feedin == obj.df.electricity_feedin
        prices    == obj.df.price_euro_per_kwh
    IN  [ electricity_use    |-> [i \in DOMAIN el_use |->
                                    IF ~isnan(el_use[i]) THEN el_use[i] ELSE 0],
          electricity_feedin |-> [i \in DOMAIN el_feedin |->
                                    IF ~isnan(el_feedin[i]) THEN el_feedin[i] ELSE 0],
          prices             |-> prices,
          prices_tax         |-> [i \in DOMAIN prices |->
                                    prices[i] * (100 + obj.tax_rate)
                                      + obj.tax_per_kwh * 100] ] @@ obj

\* The attribute T is not assigned here: LP_optimize assigns it.  With an
\* interval other than 'hour' or 'quarter' a message is printed and the
\* attribute interval_fraction is not assigned.
EpexOptimizer(df, battery, start_soc, end_soc, tax_rate, tax_per_kwh, allow_grid_discharge, allow_grid_charge, cutoff, interval) ==
    _set_period(
      [ class                |-> "EpexOptimizer",
        df                   |-> df,
        battery              |-> battery,
        start_soc            |-> start_soc,
        end_soc              |-> end_soc,
        tax_per_kwh          |-> tax_per_kwh,
        tax_rate             |-> tax_rate,
        allow_grid_discharge |-> allow_grid_discharge,
        allow_grid_charge    |-> allow_grid_charge,
        cutoff               |-> cutoff,
        interval             |-> interval,
        M                    |-> M_general,
        opt                  |-> None ]
      @@ (IF interval = "hour" THEN [interval_fraction |-> 4]
          ELSE IF interval = "quarter" THEN [interval_fraction |-> 1]
          ELSE <<>>))

-----------------------------------------------------------------------------
(* epex_optimizer_nm.py: construction *)

M_nm == 10000000

EpexOptimizerNM(prices, battery, start_soc, end_soc, cutoff) ==
    [ class     |-> "EpexOptimizerNM",
      prices    |-> prices,
      battery   |-> battery,
      cutoff    |-> cutoff,
      start_soc |-> start_soc,
      end_soc   |-> end_soc,
      T         |-> len(prices),
      opt       |-> None,
      M         |-> M_nm ]

\* The methods each class defines (the attributes a call can look up).
Methods(class) ==
    IF class = "EpexOptimizer"
    THEN { "__init__", "_set_period", "LP_optimize", "get_grid_discharges",
           "get_selfuse_discharges", "get_grid_charges", "get_solar_charges",
           "get_charges", "get_discharges", "get_socs", "compute_yield",
           "_create_ineqality_constraints", "_create_equality_constraints" }
    ELSE { "__init__", "LP_optimize", "get_charges", "get_discharges",
           "get_socs", "compute_yield", "_create_ineqality_constraints",
           "_create_equality_constraints" }

-----------------------------------------------------------------------------
(* Constraint systems.                                                      *)
(* A row the code builds as tmp_list = [0] * n followed by assignments      *)
(* tmp_list[j] = c is held as the function j :> c on the assigned indices   *)
(* (every other coefficient is 0).  The lists (lhs, rhs) a builder returns  *)
(* are held zipped, as one sequence of pairs <<row, rhs>>.  A right-hand    *)
(* side r is held as r * Scale, like the variables.                         *)

\* The soc rows without the loop of the lower bounds.
SocBoundRows_upper_only(obj, s) ==
    LET T == obj.T
        battery == obj.battery
    IN  [k \in 1..T |-> LET i == k - 1 IN
            << (s + i) :> 1, battery.max_soc >>]

\* soc <= max_soc and soc >= min_soc (-soc <= -min_soc), the same two loops
\* in both classes; s is the offset of the soc block.
SocBoundRows(obj, s) ==
    LET T == obj.T
        battery == obj.battery
    IN  [k \in 1..T |-> LET i == k - 1 IN
            << (s + i) :> 1, battery.max_soc >>]
     \o [k \in 1..T |-> LET i == k - 1 IN
            << (s + i) :> (0 - 1), 0 - battery.min_soc >>]

\* x_t <= M(1-z) and y_t <= M * z, the same two loops in both classes; x, y
\* and z are the offsets of the discharge, charge and flag blocks.
BigMRows(obj, x, y, z) ==
    LET T == obj.T
    IN  [k \in 1..T |-> LET i == k - 1 IN
            << ((i + x) :> 1) @@ ((i + z) :> obj.M), obj.M * Scale >>]
     \o [k \in 1..T |-> LET i == k - 1 IN
            << ((i + y) :> 1) @@ ((i + z) :> (0 - obj.M)), 0 >>]

\* zyt <= el_feedin and zxt <= el_use
FlowLimitRows(obj) ==
    LET T == obj.T
    IN  [k \in 1..T |-> LET i == k - 1 IN
            << (i + 3 * T) :> 1, obj.electricity_feedin[i] >>]
     \o [k \in 1..T |-> LET i == k - 1 IN
            << (i + T) :> 1, obj.electricity_use[i] >>]

\* xt <= interval_fraction * max_discharge_power and
\* yt <= interval_fraction * max_charge_power.  interval_fraction is held in
\* quarters, so the rows are held multiplied by 4.
PowerRows(obj) ==
    LET T == obj.T
        battery == obj.battery
    IN  [k \in 1..T |-> LET i == k - 1 IN
            << (i + 4 * T) :> 4,
               battery.max_discharge_power * obj.interval_fraction >>]
     \o [k \in 1..T |-> LET i == k - 1 IN
            << (i + 5 * T) :> 4,
               battery.max_charge_power * obj.interval_fraction >>]

\* epex_optimizer.py.  PowerRows reads obj.interval_fraction: the caller
\* handles the AttributeError of an instance that lacks it.
EpexOptimizer_create_ineqality_constraints(obj) ==
    LET T == obj.T
    IN  SocBoundRows(obj, 6 * T)
     \o FlowLimitRows(obj)
     \o PowerRows(obj)
     \o BigMRows(obj, 4 * T, 5 * T, 7 * T)

\* The state-transition rows with the first one starting from soc 0.
TransitionRow_from_empty(obj, i, s, x, y) ==
    LET T == obj.T
        battery == obj.battery
        num == battery.efficiency[1]
        den == battery.efficiency[2]
        one == battery.battery_size * num
    IN  IF i = 0
        THEN << ((y + i) :> (0 - num)) @@ ((x + i) :> den)
                  @@ ((s + i + 1) :> one), 0 >>
        ELSE IF i < T - 1
        THEN << ((y + i) :> (0 - num)) @@ ((x + i) :> den)
                  @@ ((s + i + 1) :> one) @@ ((s + i) :> (0 - one)), 0 >>
        ELSE << ((y + i) :> (0 - num)) @@ ((x + i) :> den)
                  @@ ((s + i) :> (0 - one)), (0 - obj.end_soc) * one >>

\* The state-transition row of period i, the same loop body in both
\* classes: s, x and y are the offsets of the soc, discharge and charge
\* blocks.  The coefficients 1, 1 / (battery_size * efficiency) and
\* -1 / battery_size and the right-hand side are held multiplied by
\* battery_size * efficiency[1], which makes them integers.
TransitionRow(obj, i, s, x, y) ==
    LET T == obj.T
        battery == obj.battery
        num == battery.efficiency[1]
        den == battery.efficiency[2]
        one == battery.battery_size * num
    IN  IF i = 0
        THEN << ((y + i) :> (0 - num)) @@ ((x + i) :> den)
                  @@ ((s + i + 1) :> one),
                obj.start_soc * one >>
        ELSE IF i < T - 1
        THEN << ((y + i) :> (0 - num)) @@ ((x + i) :> den)
                  @@ ((s + i + 1) :> one) @@ ((s + i) :> (0 - one)),
                0 >>
        ELSE << ((y + i) :> (0 - num)) @@ ((x + i) :> den)
                  @@ ((s + i) :> (0 - one)),
                (0 - obj.end_soc) * one >>

\* The flow split rows without the loop of the discharge split.
FlowSplitRows_charge_only(obj) ==
    LET T == obj.T
    IN  [k \in 1..T |-> LET i == k - 1 IN
            << ((i + 5 * T) :> (0 - 1)) @@ ((i + 3 * T) :> 1)
                 @@ ((i + 2 * T) :> 1), 0 >>]

\* y_t = gyt + zyt and x_t = gxt + zxt
FlowSplitRows(obj) ==
    LET T == obj.T
    IN  [k \in 1..T |-> LET i == k - 1 IN
            << ((i + 5 * T) :> (0 - 1)) @@ ((i + 3 * T) :> 1)
                 @@ ((i + 2 * T) :> 1), 0 >>]
     \o [k \in 1..T |-> LET i == k - 1 IN
            << ((i + 4 * T) :> (0 - 1)) @@ ((i + T) :> 1) @@ (i :> 1), 0 >>]

\* The grid permission rows with the two flags exchanged.
GridPermissionRows_swapped(obj) ==
    LET T == obj.T
    IN  (IF ~obj.allow_grid_charge
         THEN << << [i \in range(T) |-> 1], 0 >> >>
         ELSE << >>)
     \o (IF ~obj.allow_grid_discharge
         THEN << << [j \in (2 * T) .. (3 * T - 1) |-> 1], 0 >> >>
         ELSE << >>)

\* sum(gx_t) = 0 if not allow_grid_discharge, sum(gy_t) = 0 if not
\* allow_grid_charge
GridPermissionRows(obj) ==
    LET T == obj.T
    IN  (IF ~obj.allow_grid_discharge
         THEN << << [i \in range(T) |-> 1], 0 >> >>
         ELSE << >>)
     \o (IF ~obj.allow_grid_charge
         THEN << << [j \in (2 * T) .. (3 * T - 1) |-> 1], 0 >> >>
         ELSE << >>)

EpexOptimizer_create_equality_constraints(obj) ==
    LET T == obj.T
    IN  [k \in 1..T |-> TransitionRow(obj, k - 1, 6 * T, 4 * T, 5 * T)]
     \o FlowSplitRows(obj)
     \o GridPermissionRows(obj)

\* x_t <= max_discharge_power and y_t <= max_charge_power
PowerRowsNM(obj) ==
    LET T == obj.T
        battery == obj.battery
    IN  [k \in 1..T |-> LET i == k - 1 IN
            << (i + 0 * T) :> 1, battery.max_discharge_power >>]
     \o [k \in 1..T |-> LET i == k - 1 IN
            << (i + 1 * T) :> 1, battery.max_charge_power >>]

\* epex_optimizer_nm.py
EpexOptimizerNM_create_ineqality_constraints(obj) ==
    LET T == obj.T
    IN  PowerRowsNM(obj)
     \o SocBoundRows(obj, 2 * T)
     \o BigMRows(obj, 0 * T, 1 * T, 3 * T)

EpexOptimizerNM_create_equality_constraints(obj) ==
    LET T == obj.T
    IN  [k \in 1..T |-> TransitionRow(obj, k - 1, 2 * T, 0 * T, 1 * T)]

\* An integrality mask that leaves the flag block continuous.
Integrality_continuous(obj) ==
    LET T == obj.T
        n == IF obj.class = "EpexOptimizer" THEN 7 * T ELSE 3 * T
    IN  [j \in range(n + T) |-> 0]

\* integrality = [0] * 7 * T + [1] * T, and [0] * 3 * T + [1] * T
Integrality(obj) ==
    LET T == obj.T
        n == IF obj.class = "EpexOptimizer" THEN 7 * T ELSE 3 * T
    IN  [j \in range(n + T) |-> IF j < n THEN 0 ELSE 1]


-----------------------------------------------------------------------------
(* The objective vector obj of LP_optimize.  The prices are in cent and the *)
(* taxed prices in 1 / 10000 euro; cutoff is in cent.  The term             *)
(* cutoff / (effective_battery_size * efficiency) is a fraction whose       *)
(* denominator, expressed in the units of the model, is ObjDen; every       *)
(* coefficient is held multiplied by ObjDen, which makes it an integer.     *)
(* The batteries explored have max_soc > min_soc and efficiency > 0, so     *)
(* that ObjDen > 0 and the division in the code is defined.                 *)

\* effective_battery_size * efficiency, times Scale * efficiency[2]
ObjDen(obj) ==
    LET battery == obj.battery
    IN  (battery.max_soc - battery.min_soc) * battery.battery_size
          * battery.efficiency[1]

\* cutoff / (effective_battery_size * efficiency), times ObjDen, in cent
CutoffTerm(obj) == obj.cutoff * Scale * obj.battery.efficiency[2]

\* The objective of EpexOptimizer with the cutoff term laid on the soc block.
EpexOptimizer_obj_on_soc(obj) ==
    LET T == obj.T
    IN  [j \in range(8 * T) |->
           LET i == j % T
           IN  CASE j \div T = 0 -> (0 - obj.prices[i]) * 100 * ObjDen(obj)
                 [] j \div T = 1 -> (0 - obj.prices_tax[i]) * ObjDen(obj)
                 [] j \div T = 2 -> obj.prices_tax[i] * ObjDen(obj)
                 [] j \div T = 3 -> obj.prices[i] * 100 * ObjDen(obj)
                 [] j \div T = 6 -> CutoffTerm(obj) * 100
                 [] OTHER -> 0]

\* [*neg_prices, *neg_prices_tax, *prices_tax, *prices] + [cutoff / ...] * T
\* + [0] * 3 * T, in 1 / (10000 * ObjDen) euro per kWh
EpexOptimizer_obj(obj) ==
    LET T == obj.T
    IN  [j \in range(8 * T) |->
           LET i == j % T
           IN  CASE j \div T = 0 -> (0 - obj.prices[i]) * 100 * ObjDen(obj)
                 [] j \div T = 1 -> (0 - obj.prices_tax[i]) * ObjDen(obj)
                 [] j \div T = 2 -> obj.prices_tax[i] * ObjDen(obj)
                 [] j \div T = 3 -> obj.prices[i] * 100 * ObjDen(obj)
                 [] j \div T = 4 -> CutoffTerm(obj) * 100
                 [] OTHER -> 0]

\* The objective of EpexOptimizerNM with the prices not negated.
EpexOptimizerNM_obj_not_negated(obj) ==
    LET T == obj.T
    IN  [j \in range(4 * T) |->
           LET i == j % T
           IN  CASE j \div T = 0 ->
                      obj.prices[i] * ObjDen(obj) + CutoffTerm(obj)
                 [] j \div T = 1 -> (0 - obj.prices[i]) * ObjDen(obj)
                 [] OTHER -> 0]

\* [-p + cutoff / ... for p in prices] + [p for p in prices] + [0] * 2 * T,
\* in 1 / (100 * ObjDen) euro per kWh
EpexOptimizerNM_obj(obj) ==
    LET T == obj.T
    IN  [j \in range(4 * T) |->
           LET i == j % T
           IN  CASE j \div T = 0 ->
                      (0 - obj.prices[i]) * ObjDen(obj) + CutoffTerm(obj)
                 [] j \div T = 1 -> obj.prices[i] * ObjDen(obj)
                 [] OTHER -> 0]

Objective(obj) ==
    IF obj.class = "EpexOptimizer" THEN EpexOptimizer_obj(obj)
    ELSE EpexOptimizerNM_obj(obj)

-----------------------------------------------------------------------------
(* scipy.optimize.linprog, as the two classes call it.                      *)
(* The solver is external.  What the model keeps of it is its contract: a   *)
(* result with success = TRUE carries a vector x that satisfies every row   *)
(* of A_ub x <= b_ub and A_eq x = b_eq, the default bounds x >= 0 and the   *)
(* integrality mask; success = FALSE is returned when no vector does.  The  *)
(* vectors are searched on a finite grid of candidate values per variable,  *)
(* which holds values that break each kind of constraint.                   *)

FlowCand == {0 - Unit, 0, Unit}
TotalCand == {0, Unit, 2 * Unit}
SocCand == {0, Unit, 2 * Unit, Scale, Scale + Unit}
FlagCand == {0, Scale \div 2, Scale, 2 * Scale}

\* The candidate values of variable j of a vector of n blocks of length T.
Grid(n, T, j) ==
    LET block == j \div T
    IN  IF n = 8 * T
        THEN (IF block < 4 THEN FlowCand
              ELSE IF block < 6 THEN TotalCand
              ELSE IF block = 6 THEN SocCand ELSE FlagCand)
        ELSE (IF block < 2 THEN TotalCand
              ELSE IF block = 2 THEN SocCand ELSE FlagCand)

Dot(row, x) == Sum([j \in DOMAIN row |-> row[j] * x[j]], DOMAIN row)

\* The variables are assigned period by period: variable j is the
\* VarOrder-th to be assigned, and a row is checked as soon as every
\* variable it mentions is assigned.
VarOrder(n, T, j) == (j % T) * (n \div T) + (j \div T)

VarAt(n, T, k) == (k % (n \div T)) * T + (k \div (n \div T))

RowClosesAt(n, T, row, k) ==
    /\ \E j \in DOMAIN row : VarOrder(n, T, j) = k
    /\ \A j \in DOMAIN row : VarOrder(n, T, j) <= k

\* Bounds (0, None) and integrality of one variable.
ValueOk(integrality, j, v) ==
    /\ v >= 0
    /\ integrality[j] = 1 => v % Scale = 0

RowsOk(A_ub, A_eq, x, ub, eq) ==
    /\ \A r \in ub : Dot(A_ub[r][1], x) <= A_ub[r][2]
    /\ \A r \in eq : Dot(A_eq[r][1], x) = A_eq[r][2]

\* The assignments of the first k + 1 variables that satisfy every row
\* closed so far.
RECURSIVE Feasible(_, _, _, _, _)
Feasible(A_ub, A_eq, integrality, T, k) ==
    LET n == len(integrality)
        j == VarAt(n, T, k)
        before == IF k = 0 THEN {<< >>}
                  ELSE Feasible(A_ub, A_eq, integrality, T, k - 1)
        values == {v \in Grid(n, T, j) : ValueOk(integrality, j, v)}
        ub == {r \in DOMAIN A_ub : RowClosesAt(n, T, A_ub[r][1], k)}
        eq == {r \in DOMAIN A_eq : RowClosesAt(n, T, A_eq[r][1], k)}
    IN  {x \in {(j :> v) @@ a : a \in before, v \in values} :
            RowsOk(A_ub, A_eq, x, ub, eq)}

\* The results linprog can return.
linprog(A_ub, A_eq, integrality, T) ==
    LET xs == Feasible(A_ub, A_eq, integrality, T, len(integrality) - 1)
    IN  IF xs = {} THEN {[success |-> FALSE]}
        ELSE {[success |-> TRUE, x |-> x] : x \in xs}

\* The results linprog can return when it minimises c: a vector of least
\* c . x among the vectors that satisfy the constraint system.
linprog_minimize(c, A_ub, A_eq, integrality, T) ==
    LET xs == Feasible(A_ub, A_eq, integrality, T, len(integrality) - 1)
        values == {Dot(c, x) : x \in xs}
        least == CHOOSE v \in values : \A w \in values : v <= w
    IN  IF xs = {} THEN {[success |-> FALSE]}
        ELSE {[success |-> TRUE, x |-> x] : x \in {y \in xs : Dot(c, y) = least}}


-----------------------------------------------------------------------------
(* What a call gives back: a value, or an exception that propagates. *)

Return(v) == [value |-> v]

Raise(e) == [raised |-> e]

Raised(r) == "raised" \in DOMAIN r

\* ZeroList with an off-by-one length.
ZeroList_short(obj) ==
    IF HasAttr(obj, "T") THEN Return(Zeros(obj.T - 1)) ELSE Raise("AttributeError")

\* [0 for _ in range(self.T)]
ZeroList(obj) ==
    IF HasAttr(obj, "T") THEN Return(Zeros(obj.T)) ELSE Raise("AttributeError")

-----------------------------------------------------------------------------
(* epex_optimizer.py: accessors.  Values in 1 / Scale kWh (socs: 1 / Scale) *)

EpexOptimizer_get_grid_discharges(obj) ==
    IF obj.opt = None THEN ZeroList(obj)
    ELSE Return(Slice(obj.opt.x, 0, obj.T))

EpexOptimizer_get_selfuse_discharges(obj) ==
    IF obj.opt = None THEN ZeroList(obj)
    ELSE Return(Slice(obj.opt.x, obj.T, 2 * obj.T))

EpexOptimizer_get_grid_charges(obj) ==
    IF obj.opt = None THEN ZeroList(obj)
    ELSE Return(Slice(obj.opt.x, 2 * obj.T, 3 * obj.T))

EpexOptimizer_get_solar_charges(obj) ==
    IF obj.opt = None THEN ZeroList(obj)
    ELSE Return(Slice(obj.opt.x, 3 * obj.T, 4 * obj.T))

EpexOptimizer_get_charges(obj) ==
    IF obj.opt = None THEN ZeroList(obj)
    ELSE Return(Slice(obj.opt.x, 5 * obj.T, 6 * obj.T))

EpexOptimizer_get_discharges(obj) ==
    IF obj.opt = None THEN ZeroList(obj)
    ELSE Return(Slice(obj.opt.x, 4 * obj.T, 5 * obj.T))

EpexOptimizer_get_socs(obj) ==
    IF obj.opt = None THEN ZeroList(obj)
    ELSE LET socs == Slice(obj.opt.x, 6 * obj.T, 7 * obj.T)
         IN  Return([socs EXCEPT ![0] = obj.start_soc])

\* round(-feedin[i] * prices[i] + use[i] * prices_tax[i], 6), in 10^-6 euro
OrigCostTerm(obj, i) ==
    round(0 - obj.electricity_feedin[i] * obj.prices[i] * 100
            + obj.electricity_use[i] * obj.prices_tax[i],
          Scale * 10000, 6)

\* The pair compute_yield returns, and the value it leaves in
\* yield_in_period.  orig_cost is a sum of values rounded to 10^-6 euro and
\* extra_cost a sum of exact products in 1 / (Scale * 10000) euro; yield and
\* total_cost are held in 1 / (3 * 10^6) euro, a multiple of both.
EpexOptimizer_compute_yield(obj) ==
    IF ~HasAttr(obj, "T") THEN Raise("AttributeError")
    ELSE
    LET orig_cost == Sum([i \in range(obj.T) |-> OrigCostTerm(obj, i)],
                         range(obj.T))
    IN  IF obj.opt = None THEN Return(<<0, 3 * orig_cost>>)
        ELSE
        LET grid_discharge    == EpexOptimizer_get_grid_discharges(obj).value
            selfuse_discharge == EpexOptimizer_get_selfuse_discharges(obj).value
            grid_charge       == EpexOptimizer_get_grid_charges(obj).value
            solar_charge      == EpexOptimizer_get_solar_charges(obj).value
            extra_cost ==
                Sum([i \in range(obj.T) |->
                        grid_charge[i] * obj.prices_tax[i]
                      + solar_charge[i] * obj.prices[i] * 100
                      - selfuse_discharge[i] * obj.prices_tax[i]
                      - grid_discharge[i] * obj.prices[i] * 100],
                    range(obj.T))
            yield_in_period == 0 - 25 * extra_cost
            total_cost == 3 * orig_cost + 25 * extra_cost
        IN  Return(<<yield_in_period, total_cost>>)

-----------------------------------------------------------------------------
(* epex_optimizer_nm.py: accessors.  get_charges and get_discharges round   *)
(* to 4 decimals: their values are in 10^-4 kWh.  socs: 1 / Scale.          *)

EpexOptimizerNM_get_charges(obj) ==
    IF obj.opt = None THEN ZeroList(obj)
    ELSE LET l == Slice(obj.opt.x, 1 * obj.T, 2 * obj.T)
         IN  Return([i \in DOMAIN l |-> round(l[i], Scale, 4)])

EpexOptimizerNM_get_discharges(obj) ==
    IF obj.opt = None THEN ZeroList(obj)
    ELSE LET l == Slice(obj.opt.x, 0 * obj.T, 1 * obj.T)
             abs(v) == IF v < 0 THEN 0 - v ELSE v
         IN  Return([i \in DOMAIN l |-> round(abs(l[i]), Scale, 4)])

EpexOptimizerNM_get_socs(obj) ==
    IF obj.opt = None THEN ZeroList(obj)
    ELSE LET socs == Slice(obj.opt.x, 2 * obj.T, 3 * obj.T)
         IN  Return([socs EXCEPT ![0] = obj.start_soc])

\* The yield compute_yield returns, in 10^-6 euro.
EpexOptimizerNM_compute_yield(obj) ==
    IF obj.opt = None THEN Return(0)
    ELSE LET discharge == EpexOptimizerNM_get_discharges(obj).value
             charge    == EpexOptimizerNM_get_charges(obj).value
         IN  Return(Sum([i \in range(obj.T) |->
                            discharge[i] * obj.prices[i]
                          - charge[i] * obj.prices[i]],
                        range(obj.T)))

-----------------------------------------------------------------------------
(* Method lookup: obj.name() *)

Call(obj, name) ==
    IF name \notin Methods(obj.class) THEN Raise("AttributeError")
    ELSE IF obj.class = "EpexOptimizer"
    THEN CASE name = "get_grid_discharges" -> EpexOptimizer_get_grid_discharges(obj)
           [] name = "get_selfuse_discharges" -> EpexOptimizer_get_selfuse_discharges(obj)
           [] name = "get_grid_charges" -> EpexOptimizer_get_grid_charges(obj)
           [] name = "get_solar_charges" -> EpexOptimizer_get_solar_charges(obj)
           [] name = "get_charges" -> EpexOptimizer_get_charges(obj)
           [] name = "get_discharges" -> EpexOptimizer_get_discharges(obj)
           [] name = "get_socs" -> EpexOptimizer_get_socs(obj)
           [] name = "compute_yield" -> EpexOptimizer_compute_yield(obj)
    ELSE CASE name = "get_charges" -> EpexOptimizerNM_get_charges(obj)
           [] name = "get_discharges" -> EpexOptimizerNM_get_discharges(obj)
           [] name = "get_socs" -> EpexOptimizerNM_get_socs(obj)
           [] name = "compute_yield" -> EpexOptimizerNM_compute_yield(obj)


-----------------------------------------------------------------------------
(* The inputs explored *)

Horizons == 1 .. MaxT

\* A series of T periods that alternates between shape[1] and shape[2].
Series(T, shape) == [t \in range(T) |-> shape[(t % 2) + 1]]

DataFrames(T) ==
    { [ electricity_usage  |-> Series(T, <<Unit, 0>>),
        electricity_feedin |-> Series(T, <<0, Unit>>),
        price_euro_per_kwh |-> Series(T, <<2, 5>>) ],
      [ electricity_usage  |-> Series(T, <<NaN, Unit>>),
        electricity_feedin |-> Series(T, <<Unit, Unit>>),
        price_euro_per_kwh |-> Series(T, <<0 - 1, 3>>) ] }

PriceLists(T) == { Series(T, <<2, 5>>), Series(T, <<0 - 1, 3>>) }

\* The third battery is a large one: 5000 kWh, 2000 kW.
Batteries ==
    { Battery(1, 0, Scale + Unit, Unit, Unit, <<1, 1>>),
      Battery(1, Unit, Scale, Unit, Unit, <<1, 2>>),
      Battery(5000, 0, Scale, 2000 * Scale, 2000 * Scale, <<1, 1>>) }

StartSocs == {0, Unit, 2 * Unit}

EndSocs == {Unit, Scale}

Intervals == {"hour", "quarter", "day"}

Instances ==
    UNION { { EpexOptimizer(df, battery, start_soc, end_soc, 21, 15,
                            allow_grid_discharge, allow_grid_charge, 0, interval) :
                df \in DataFrames(T), battery \in Batteries,
                start_soc \in StartSocs, end_soc \in EndSocs,
                allow_grid_discharge \in BOOLEAN, allow_grid_charge \in BOOLEAN,
                interval \in Intervals }
            \cup
            { EpexOptimizerNM(prices, battery, start_soc, end_soc, 0) :
                prices \in PriceLists(T), battery \in Batteries,
                start_soc \in StartSocs, end_soc \in EndSocs } :
            T \in Horizons }

-----------------------------------------------------------------------------
(* LP_optimize *)

\* self.T = len(self.prices): the first statement of EpexOptimizer.LP_optimize
\* (EpexOptimizerNM assigns T in __init__).
AssignT(obj) ==
    IF obj.class = "EpexOptimizer" THEN SetAttr(obj, "T", len(obj.prices)) ELSE obj

\* The constraint builders of EpexOptimizer raise AttributeError when the
\* instance has no interval_fraction.
BuildersRaise(obj) ==
    obj.class = "EpexOptimizer" /\ ~HasAttr(obj, "interval_fraction")

\* The results the linprog call of LP_optimize can return for obj.
Solve(obj) ==
    IF obj.class = "EpexOptimizer"
    THEN linprog(EpexOptimizer_create_ineqality_constraints(obj),
                 EpexOptimizer_create_equality_constraints(obj),
                 Integrality(obj), obj.T)
    ELSE linprog(EpexOptimizerNM_create_ineqality_constraints(obj),
                 EpexOptimizerNM_create_equality_constraints(obj),
                 Integrality(obj), obj.T)

\* What __init__ prints: EpexOptimizer prints a message for an interval
\* other than 'hour' and 'quarter'; EpexOptimizerNM prints nothing.
Printed__init__(obj) ==
    IF obj.class = "EpexOptimizer" /\ obj.interval \notin {"hour", "quarter"}
    THEN << "Invalid interval entered, assuming hour" >>
    ELSE << >>

\* What LP_optimize prints once linprog has returned res: EpexOptimizerNM
\* prints res.message when res.success is false; in EpexOptimizer that print
\* statement is commented out.
Printed_LP_optimize(obj, res) ==
    IF obj.class = "EpexOptimizerNM" /\ ~res.success
    THEN << "opt.message" >>
    ELSE << >>

\* The solver is deterministic and nothing changes the inputs of an
\* instance after construction, so every LP_optimize call of one instance
\* gets the same result: it is chosen once, in solver.
Init ==
    /\ self \in Instances
    /\ solver \in (IF BuildersRaise(self) THEN {[success |-> FALSE]}
                   ELSE Solve(AssignT(self)))
    /\ last = [op |-> "__init__", printed |-> Printed__init__(self)]

\* AttributeError out of _create_ineqality_constraints: T is assigned,
\* linprog is not reached.
LP_optimize_no_interval ==
    /\ BuildersRaise(self)
    /\ self' = AssignT(self)
    /\ last' = [op |-> "LP_optimize", raised |-> "AttributeError",
                printed |-> << >>]
    /\ UNCHANGED solver

\* linprog does not return (it raises, or the solve is interrupted): the
\* assignment to self.opt is not reached.
LP_optimize_linprog_raises ==
    /\ ~BuildersRaise(self)
    /\ self' = AssignT(self)
    /\ last' = [op |-> "LP_optimize", raised |-> "linprog", printed |-> << >>,
                c |-> Objective(AssignT(self))]
    /\ UNCHANGED solver

LP_optimize_returns ==
    /\ ~BuildersRaise(self)
    /\ self' = SetAttr(AssignT(self), "opt",
                       IF solver.success THEN solver ELSE None)
    /\ last' = [op |-> "LP_optimize", success |-> solver.success,
                printed |-> Printed_LP_optimize(self, solver),
                c |-> Objective(AssignT(self))]
    /\ UNCHANGED solver

LP_optimize ==
    \/ LP_optimize_no_interval
    \/ LP_optimize_linprog_raises
    \/ LP_optimize_returns

-----------------------------------------------------------------------------
(* compute_yield: both classes assign yield_in_period when a solution is    *)
(* recorded.                                                                *)

compute_yield ==
    LET r == Call(self, "compute_yield")
    IN  /\ self' = IF Raised(r) \/ self.opt = None THEN self
                   ELSE SetAttr(self, "yield_in_period",
                                IF self.class = "EpexOptimizer"
                                THEN r.value[1] ELSE r.value)
        /\ last' = [op |-> "compute_yield", result |-> r]
        /\ UNCHANGED solver

-----------------------------------------------------------------------------
(* opt.set_socs(end_soc), as the class documentation of EpexOptimizerNM     *)
(* describes it and its example calls it.  The class defines no such        *)
(* method: the lookup raises and the instance is left as it was.            *)

set_socs(end_soc) ==
    /\ self.class = "EpexOptimizerNM"
    /\ Raised(Call(self, "set_socs"))
    /\ last' = [op |-> "set_socs", raised |-> "AttributeError",
                end_soc |-> end_soc, start_soc_before |-> self.start_soc,
                end_soc_before |-> self.end_soc]
    /\ UNCHANGED <<self, solver>>

Next ==
    \/ LP_optimize
    \/ compute_yield
    \/ \E end_soc \in EndSocs : set_socs(end_soc)

Spec == Init /\ [][Next]_vars

-----------------------------------------------------------------------------
(* The same operations with the cutoff among the inputs and with the       *)
(* solver returning a vector that minimises the objective.                  *)

Cutoffs == {0, 1, 3}

BatteriesOpt ==
    { Battery(1, 0, Scale, Unit, Unit, <<1, 1>>),
      Battery(1, 0, Scale, Unit, 2 * Unit, <<1, 2>>) }

PriceListsOpt(T) == { Series(T, <<0 - 1, 3>>), Series(T, <<2, 4>>) }

InstancesOpt ==
    UNION { { EpexOptimizer(df, battery, start_soc, Unit, 21, 15,
                            allow_grid_discharge, TRUE, cutoff, interval) :
                df \in DataFrames(T), battery \in BatteriesOpt,
                start_soc \in {0, Unit}, allow_grid_discharge \in BOOLEAN,
                cutoff \in Cutoffs, interval \in {"hour", "day"} }
            \cup
            { EpexOptimizerNM(prices, battery, start_soc, end_soc, cutoff) :
                prices \in PriceListsOpt(T), battery \in BatteriesOpt,
                start_soc \in StartSocs, end_soc \in {0, Unit},
                cutoff \in Cutoffs } :
            T \in Horizons }

\* The results the linprog call of LP_optimize can return for obj when the
\* objective is taken into account.
SolveOptimal(obj) ==
    IF obj.class = "EpexOptimizer"
    THEN linprog_minimize(Objective(obj),
                          EpexOptimizer_create_ineqality_constraints(obj),
                          EpexOptimizer_create_equality_constraints(obj),
                          Integrality(obj), obj.T)
    ELSE linprog_minimize(Objective(obj),
                          EpexOptimizerNM_create_ineqality_constraints(obj),
                          EpexOptimizerNM_create_equality_constraints(obj),
                          Integrality(obj), obj.T)

InitOpt ==
    /\ self \in InstancesOpt
    /\ solver \in (IF BuildersRaise(self) THEN {[success |-> FALSE]}
                   ELSE SolveOptimal(AssignT(self)))
    /\ last = [op |-> "__init__", printed |-> Printed__init__(self)]

SpecOpt == InitOpt /\ [][Next]_vars


-----------------------------------------------------------------------------
(* Properties *)

\* The schedule accessors a class defines.
ScheduleAccessors(obj) ==
    { "get_grid_discharges", "get_selfuse_discharges", "get_grid_charges",
      "get_solar_charges", "get_discharges", "get_charges", "get_socs" }
      \cap Methods(obj.class)

\* Every schedule accessor returns len(prices) zeros and compute_yield
\* returns yield 0, none raising.
DegradedToZeros(obj) ==
    /\ \A a \in ScheduleAccessors(obj) :
          Call(obj, a) = Return(Zeros(len(obj.prices)))
    /\ LET r == Call(obj, "compute_yield")
       IN  /\ ~Raised(r)
           /\ IF obj.class = "EpexOptimizer" THEN r.value[1] = 0
              ELSE r.value = 0

\* The last operation was an LP_optimize call whose solver reported
\* success = false.
SolveFailed ==
    last.op = "LP_optimize" /\ "success" \in DOMAIN last /\ ~last.success

\* usage_t * taxedPrice_t - feedIn_t * price_t, exact, in
\* 1 / (Scale * 10000) euro, from the raw inputs (NaN counted as 0).
NoBatteryCostTerm(obj, t) ==
    LET usage  == IF isnan(obj.df.electricity_usage[t]) THEN 0
                  ELSE obj.df.electricity_usage[t]
        feedIn == IF isnan(obj.df.electricity_feedin[t]) THEN 0
                  ELSE obj.df.electricity_feedin[t]
        price  == obj.df.price_euro_per_kwh[t]
        taxed  == price * (100 + obj.tax_rate) + obj.tax_per_kwh * 100
    IN  usage * taxed - feedIn * price * 100

\* The exact no-battery cost, in 1 / (3 * 10^6) euro.
NoBatteryCost(obj) ==
    LET n == len(obj.df.price_euro_per_kwh)
    IN  25 * Sum([t \in range(n) |-> NoBatteryCostTerm(obj, t)], range(n))

\* The no-battery cost with each period's term rounded to 6 decimals, in
\* 1 / (3 * 10^6) euro.
RoundedNoBatteryCost(obj) ==
    LET n == len(obj.df.price_euro_per_kwh)
    IN  3 * Sum([t \in range(n) |->
                    RoundHalfEven(25 * NoBatteryCostTerm(obj, t), 3)],
                range(n))

Abs(v) == IF v < 0 THEN 0 - v ELSE v

C2_FreshInstance_Zeros ==
    last.op = "__init__" => DegradedToZeros(self)


\* C3: once a later LP_optimize call has started, the solution an earlier
\* call recorded is never returned again: after the call the accessors give
\* the new solution if the call succeeded and zeros otherwise, also when the
\* solve did not complete normally.
C3_Resolve_DiscardsEarlier ==
    last.op = "LP_optimize" =>
        IF "success" \in DOMAIN last /\ last.success
        THEN self.opt = solver
        ELSE DegradedToZeros(self)

-----------------------------------------------------------------------------
(* The blocks of a solution vector, by class *)

IsGeneral(obj) == obj.class = "EpexOptimizer"

Horizon(obj) == len(obj.prices)

DischargeOf(obj, x, t) == IF IsGeneral(obj) THEN x[4 * Horizon(obj) + t] ELSE x[t]

ChargeOf(obj, x, t) ==
    IF IsGeneral(obj) THEN x[5 * Horizon(obj) + t] ELSE x[Horizon(obj) + t]

FlagOf(obj, x, t) ==
    IF IsGeneral(obj) THEN x[7 * Horizon(obj) + t] ELSE x[3 * Horizon(obj) + t]

Solved == self.opt # None

\* C4: every assignment that satisfies the constraint system has, in every
\* period, not both charge > 0 and discharge > 0: the flag is 0 or 1,
\* flag = 1 forces discharge = 0 and flag = 0 forces charge = 0.
C4_MutualExclusion ==
    solver.success =>
        \A t \in range(Horizon(self)) :
            LET charge    == ChargeOf(self, solver.x, t)
                discharge == DischargeOf(self, solver.x, t)
                flag      == FlagOf(self, solver.x, t)
            IN  /\ ~(charge > 0 /\ discharge > 0)
                /\ flag \in {0, Scale}
                /\ flag = Scale => discharge = 0
                /\ flag = 0 => charge = 0

\* A recorded solution that charges in one period and discharges in another.
C4_Witness ==
    /\ Solved
    /\ \E t \in range(Horizon(self)) : ChargeOf(self, self.opt.x, t) > 0
    /\ \E t \in range(Horizon(self)) : DischargeOf(self, self.opt.x, t) > 0

SocInBounds(obj, soc) == obj.battery.min_soc <= soc /\ soc <= obj.battery.max_soc

\* C5 as stated: with a solution recorded, every element of get_socs lies
\* in [min_soc, max_soc], whatever start_soc and end_soc the caller gave.
C5_AllSocsInBounds ==
    Solved =>
        LET socs == Call(self, "get_socs").value
        IN  \A t \in range(Horizon(self)) : SocInBounds(self, socs[t])

\* C5 amended: with a solution recorded, every element soc_t of get_socs
\* with t >= 1 lies in [min_soc, max_soc], and soc_0 is start_soc as the
\* caller gave it, so it lies in the bounds exactly when start_soc does.
C5_LaterSocsInBounds ==
    Solved =>
        LET socs == Call(self, "get_socs").value
        IN  /\ DOMAIN socs = range(Horizon(self))
            /\ socs[0] = self.start_soc
            /\ \A t \in 1 .. (Horizon(self) - 1) : SocInBounds(self, socs[t])

\* A recorded solution over two or more periods whose start_soc is below
\* min_soc.
C5_Witness ==
    /\ Solved
    /\ Horizon(self) >= 2
    /\ self.start_soc < self.battery.min_soc

\* soc' = soc + charge / capacity - discharge / (capacity * efficiency),
\* multiplied by capacity * efficiency[1].
Transition(obj, soc, charge, discharge, socNext) ==
    LET num == obj.battery.efficiency[1]
        den == obj.battery.efficiency[2]
        one == obj.battery.battery_size * num
    IN  one * socNext = one * soc + num * charge - den * discharge

Unreachable(obj) ==
    LET num == obj.battery.efficiency[1]
        den == obj.battery.efficiency[2]
        one == obj.battery.battery_size * num
        quarters == IF IsGeneral(obj) THEN obj.interval_fraction ELSE 4
        diff == 4 * one * (obj.end_soc - obj.start_soc)
    IN  \/ diff > num * obj.battery.max_charge_power * quarters
        \/ diff < 0 - den * obj.battery.max_discharge_power * quarters

\* C7: for a single period, when end_soc cannot be reached from start_soc
\* within the power limits, LP_optimize records no solution, every accessor
\* returns zeros and the yield is 0.
C7_SinglePeriod_Unreachable ==
    ( /\ last.op = "LP_optimize"
      /\ "success" \in DOMAIN last
      /\ Horizon(self) = 1
      /\ Unreachable(self) ) =>
        ~Solved /\ DegradedToZeros(self)

\* C8: in the general model every recorded solution has, per period,
\* gridDischarge + selfUseDischarge = totalDischarge,
\* gridCharge + solarCharge = totalCharge, 0 <= selfUseDischarge <= usage
\* and 0 <= solarCharge <= feedIn, on the values the accessors return.
C8_FlowDecomposition ==
    (Solved /\ IsGeneral(self)) =>
        LET gridDischarge    == Call(self, "get_grid_discharges").value
            selfUseDischarge == Call(self, "get_selfuse_discharges").value
            totalDischarge   == Call(self, "get_discharges").value
            gridCharge       == Call(self, "get_grid_charges").value
            solarCharge      == Call(self, "get_solar_charges").value
            totalCharge      == Call(self, "get_charges").value
        IN  \A t \in range(Horizon(self)) :
               /\ gridDischarge[t] + selfUseDischarge[t] = totalDischarge[t]
               /\ gridCharge[t] + solarCharge[t] = totalCharge[t]
               /\ 0 <= selfUseDischarge[t]
               /\ selfUseDischarge[t] <= self.electricity_use[t]
               /\ 0 <= solarCharge[t]
               /\ solarCharge[t] <= self.electricity_feedin[t]

\* A recorded general-model solution with a self-use discharge and a solar
\* charge.
C8_Witness ==
    /\ Solved
    /\ IsGeneral(self)
    /\ \E t \in range(Horizon(self)) :
          Call(self, "get_selfuse_discharges").value[t] > 0
    /\ \E t \in range(Horizon(self)) :
          Call(self, "get_solar_charges").value[t] > 0

\* C9: in the general model, with allow_grid_discharge false every recorded
\* solution has gridDischarge_t = 0 in every period (all discharge is
\* self-use discharge, bounded by usage_t); with allow_grid_charge false it
\* has gridCharge_t = 0 in every period (all charge is solar charge, bounded
\* by feedIn_t); a flag that is true adds no row to the equality system.
C9_GridPermissions ==
    (Solved /\ IsGeneral(self)) =>
        LET T == Horizon(self)
            gridDischarge == Call(self, "get_grid_discharges").value
            gridCharge    == Call(self, "get_grid_charges").value
            discharge     == Call(self, "get_discharges").value
            charge        == Call(self, "get_charges").value
        IN  /\ ~self.allow_grid_discharge =>
                  \A t \in range(T) : /\ gridDischarge[t] = 0
                                      /\ discharge[t] <= self.electricity_use[t]
            /\ ~self.allow_grid_charge =>
                  \A t \in range(T) : /\ gridCharge[t] = 0
                                      /\ charge[t] <= self.electricity_feedin[t]
            /\ Len(EpexOptimizer_create_equality_constraints(self))
                  = 3 * T + (IF self.allow_grid_discharge THEN 0 ELSE 1)
                          + (IF self.allow_grid_charge THEN 0 ELSE 1)

\* A recorded solution that discharges with grid discharge disallowed and
\* charges with grid charge disallowed.
C9_Witness ==
    /\ Solved
    /\ IsGeneral(self)
    /\ ~self.allow_grid_discharge
    /\ ~self.allow_grid_charge
    /\ \E t \in range(Horizon(self)) : Call(self, "get_discharges").value[t] > 0
    /\ \E t \in range(Horizon(self)) : Call(self, "get_charges").value[t] > 0

\* C10: after set_socs(newEndSoc) on a net-metering instance, start_soc is
\* the end_soc the instance held before the call and end_soc is newEndSoc.
C10_SetSocs_Chains ==
    last.op = "set_socs" =>
        /\ ~Raised(last)
        /\ self.start_soc = last.end_soc_before
        /\ self.end_soc = last.end_soc


\* C11: in the general model an instance constructed with an interval other
\* than 'hour' and 'quarter' has printed a diagnostic and holds the interval
\* fraction of 'hour'; LP_optimize on it builds the power rows of 'hour' and
\* does not raise.
C11_InvalidInterval_AssumesHour ==
    (IsGeneral(self) /\ self.interval \notin {"hour", "quarter"}) =>
        /\ last.op = "__init__" => last.printed # << >>
        /\ last.op = "LP_optimize" =>
              /\ ~Raised(last)
              /\ HasAttr(self, "interval_fraction")
              /\ PowerRows(self) = PowerRows(SetAttr(self, "interval_fraction", 4))


\* price_t * (1 + taxRate) + fixedTaxPerKwh from the raw inputs, in
\* 1 / 10000 euro.
TaxedPrice(obj, t) ==
    obj.df.price_euro_per_kwh[t] * (100 + obj.tax_rate) + obj.tax_per_kwh * 100

\* The sum over t of gridCharge_t * taxedPrice_t + solarCharge_t * price_t
\* - selfUseDischarge_t * taxedPrice_t - gridDischarge_t * price_t on the
\* values the accessors return, in 1 / (3 * 10^6) euro.
ExtraCost(obj) ==
    LET gridDischarge    == Call(obj, "get_grid_discharges").value
        selfUseDischarge == Call(obj, "get_selfuse_discharges").value
        gridCharge       == Call(obj, "get_grid_charges").value
        solarCharge      == Call(obj, "get_solar_charges").value
        price(t)         == obj.df.price_euro_per_kwh[t] * 100
        n                == len(obj.df.price_euro_per_kwh)
    IN  25 * Sum([t \in range(n) |->
                    gridCharge[t] * TaxedPrice(obj, t)
                  + solarCharge[t] * price(t)
                  - selfUseDischarge[t] * TaxedPrice(obj, t)
                  - gridDischarge[t] * price(t)],
                 range(n))

\* C12: in the general model compute_yield returns (yield, totalCost); with
\* a solution recorded yield = -extraCost and totalCost = originalCost
\* + extraCost, originalCost being the sum over t of usage_t * taxedPrice_t
\* - feedIn_t * price_t; and totalCost + yield = originalCost in every
\* state, solved or not.
C12_Yield_TotalCost ==
    IsGeneral(self) =>
        LET r == Call(self, "compute_yield")
        IN  /\ ~Raised(r)
            /\ r.value[1] + r.value[2] = NoBatteryCost(self)
            /\ Solved =>
                  /\ r.value[1] = 0 - ExtraCost(self)
                  /\ r.value[2] = NoBatteryCost(self) + ExtraCost(self)


\* C13: in both models, when the solver reports failure LP_optimize returns
\* to the caller without raising and has printed a diagnostic, by which the
\* failed solve is told apart from a recorded all-zero schedule.
C13_FailedSolve_Diagnostic ==
    (last.op = "LP_optimize" /\ ~Raised(last) /\ ~solver.success) =>
        /\ "success" \in DOMAIN last /\ ~last.success
        /\ last.printed # << >>


\* The objective vector the last LP_optimize call handed to linprog.
HandedToSolver == last.op = "LP_optimize" /\ "c" \in DOMAIN last

\* The coefficient of variable t of block b in c equals v euro per kWh,
\* v being given in 1 / (10000 * ObjDen) euro (general model) or
\* 1 / (100 * ObjDen) euro (net-metering model).
Coefficient(obj, c, b, t, v) == c[b * Horizon(obj) + t] = v

\* C15 as stated: the objective handed to the solver has, in the general
\* model, coefficient -price_t for gridDischarge_t, -taxedPrice_t for
\* selfUseDischarge_t, +taxedPrice_t for gridCharge_t, +price_t for
\* solarCharge_t, +cutoffRate for soc_t and 0 for totalDischarge_t,
\* totalCharge_t and flag_t; in the net-metering model -price_t for
\* discharge_t, +price_t for charge_t, +cutoffRate for soc_t and 0 for
\* flag_t.
C15_Objective_CutoffOnSoc ==
    HandedToSolver =>
        LET D == ObjDen(self)
            c == last.c
        IN  \A t \in range(Horizon(self)) :
              IF IsGeneral(self)
              THEN LET price == self.df.price_euro_per_kwh[t] * 100 * D
                       taxed == TaxedPrice(self, t) * D
                   IN  /\ Coefficient(self, c, 0, t, 0 - price)
                       /\ Coefficient(self, c, 1, t, 0 - taxed)
                       /\ Coefficient(self, c, 2, t, taxed)
                       /\ Coefficient(self, c, 3, t, price)
                       /\ Coefficient(self, c, 4, t, 0)
                       /\ Coefficient(self, c, 5, t, 0)
                       /\ Coefficient(self, c, 6, t, CutoffTerm(self) * 100)
                       /\ Coefficient(self, c, 7, t, 0)
              ELSE LET price == self.prices[t] * D
                   IN  /\ Coefficient(self, c, 0, t, 0 - price)
                       /\ Coefficient(self, c, 1, t, price)
                       /\ Coefficient(self, c, 2, t, CutoffTerm(self))
                       /\ Coefficient(self, c, 3, t, 0)

\* C15 amended: as C15, with cutoffRate laid on the discharge and not on
\* the soc: in the general model the coefficient of totalDischarge_t is
\* +cutoffRate and that of soc_t is 0; in the net-metering model the
\* coefficient of discharge_t is -price_t + cutoffRate and that of soc_t
\* is 0.
C15_Objective_CutoffOnDischarge ==
    HandedToSolver =>
        LET D == ObjDen(self)
            c == last.c
        IN  /\ DOMAIN c = range((IF IsGeneral(self) THEN 8 ELSE 4) * Horizon(self))
            /\ \A t \in range(Horizon(self)) :
                  IF IsGeneral(self)
                  THEN LET price == self.df.price_euro_per_kwh[t] * 100 * D
                           taxed == TaxedPrice(self, t) * D
                       IN  /\ Coefficient(self, c, 0, t, 0 - price)
                           /\ Coefficient(self, c, 1, t, 0 - taxed)
                           /\ Coefficient(self, c, 2, t, taxed)
                           /\ Coefficient(self, c, 3, t, price)
                           /\ Coefficient(self, c, 4, t, CutoffTerm(self) * 100)
                           /\ Coefficient(self, c, 5, t, 0)
                           /\ Coefficient(self, c, 6, t, 0)
                           /\ Coefficient(self, c, 7, t, 0)
                  ELSE LET price == self.prices[t] * D
                       IN  /\ Coefficient(self, c, 0, t, CutoffTerm(self) - price)
                           /\ Coefficient(self, c, 1, t, price)
                           /\ Coefficient(self, c, 2, t, 0)
                           /\ Coefficient(self, c, 3, t, 0)

\* LP_optimize of a general instance with a cutoff above 0 has handed its
\* objective to the solver, which returned a solution.
C15_Witness ==
    /\ HandedToSolver
    /\ IsGeneral(self)
    /\ self.cutoff > 0
    /\ Solved


\* The instance constructed with cutoff c and otherwise the arguments of a
\* net-metering instance obj.
WithCutoff(obj, c) ==
    EpexOptimizerNM(obj.prices, obj.battery, obj.start_soc, obj.end_soc, c)

\* The solutions LP_optimize can record for obj.
Recorded(obj) == {r \in SolveOptimal(obj) : r.success}

\* The yield compute_yield returns with solution r recorded, in 10^-6 euro.
YieldOf(obj, r) == EpexOptimizerNM_compute_yield(SetAttr(obj, "opt", r)).value

\* The yield of the schedule of r as the solver returned it, without the
\* rounding of the accessors, in 1 / (100 * Scale) euro.
UnroundedYieldOf(obj, r) ==
    Sum([t \in range(obj.T) |-> (r.x[t] - r.x[obj.T + t]) * obj.prices[t]],
        range(obj.T))

\* 10^-4 kWh at every period's price, in 10^-6 euro: what the rounding of
\* two schedules to 4 decimals can move the difference of their yields by.
RoundingSlack(obj) == Sum([t \in range(obj.T) |-> Abs(obj.prices[t])], range(obj.T))

\* compute_yield has returned the yield of a solution recorded for a
\* net-metering instance.
YieldReturned ==
    /\ ~IsGeneral(self)
    /\ Solved
    /\ last.op = "compute_yield"

\* C14 as stated: in the net-metering model, with prices, battery,
\* start_soc and end_soc fixed, the yield compute_yield returns after
\* LP_optimize is non-increasing in cutoff: for cutoffs c1 <= c2 with a
\* solution recorded, yield(c2) <= yield(c1).  (For c1 = c2 the two runs
\* are the same run.)
C14_Yield_NonIncreasing ==
    YieldReturned =>
        \A c1 \in Cutoffs :
            c1 < self.cutoff =>
                \A r \in Recorded(WithCutoff(self, c1)) :
                    last.result.value <= YieldOf(WithCutoff(self, c1), r)

\* C14 amended: for cutoffs c1 <= c2 with a solution recorded, the yield
\* of the schedule the solver returned is non-increasing,
\* unroundedYield(c2) <= unroundedYield(c1), and the yield compute_yield
\* returns, which is computed from the schedule rounded to 4 decimals,
\* satisfies yield(c2) <= yield(c1) + 10^-4 * sum over t of |price_t|.
C14_Yield_NonIncreasing_UpToRounding ==
    YieldReturned =>
        \A c1 \in Cutoffs :
            c1 < self.cutoff =>
                \A r \in Recorded(WithCutoff(self, c1)) :
                    /\ UnroundedYieldOf(self, self.opt)
                          <= UnroundedYieldOf(WithCutoff(self, c1), r)
                    /\ last.result.value
                          <= YieldOf(WithCutoff(self, c1), r) + RoundingSlack(self)

\* compute_yield has returned, for two or more periods, a yield that a lower
\* cutoff improves on.
C14_Witness ==
    /\ YieldReturned
    /\ Horizon(self) >= 2
    /\ \E c1 \in Cutoffs :
          /\ c1 < self.cutoff
          /\ \E r \in Recorded(WithCutoff(self, c1)) :
                UnroundedYieldOf(self, self.opt)
                   < UnroundedYieldOf(WithCutoff(self, c1), r)


\* The most one period's power rows allow, in 1 / Scale kWh:
\* power * interval_fraction in the general model, power in the
\* net-metering model.
PowerLimit(obj, power) ==
    IF IsGeneral(obj) THEN (power * obj.interval_fraction) \div 4 ELSE power

\* The two big-M rows of a period are satisfied by some value 0 or 1 of its
\* flag when the period discharges and charges the given amounts.
BigMAdmits(obj, discharge, charge) ==
    LET rows == BigMRows(SetAttr(obj, "T", 1), 0, 1, 2)
    IN  \E flag \in {0, Scale} :
            LET v == (0 :> discharge) @@ (1 :> charge) @@ (2 :> flag)
            IN  \A r \in DOMAIN rows : Dot(rows[r][1], v) <= rows[r][2]

\* C16: for every battery and interval, once LP_optimize has built the
\* constraints, the big-M constant exceeds what the power limits allow,
\* M > max_charge_power * intervalFraction and
\* M > max_discharge_power * intervalFraction, so that the big-M pair admits
\* a period that discharges, and a period that charges, as much as the power
\* limit allows.
C16_BigM_ExceedsPowerLimits ==
    (last.op = "LP_optimize" /\ "success" \in DOMAIN last) =>
        LET maxDischarge == PowerLimit(self, self.battery.max_discharge_power)
            maxCharge    == PowerLimit(self, self.battery.max_charge_power)
        IN  /\ self.M * Scale > maxDischarge
            /\ self.M * Scale > maxCharge
            /\ BigMAdmits(self, maxDischarge, 0)
            /\ BigMAdmits(self, 0, maxCharge)


====
